---- MODULE Spec2Model ----
(***************************************************************************)
(* Model of the travel-planning backend: the AI-response normalizer        *)
(* (routes/map.js, routes/places.js, routes/planner.js and the unnamed     *)
(* variant of the find-places route), the request handlers of the          *)
(* find-places, plan-trip and map routes, and the authentication routes    *)
(* (routes/auth.js) over the user collection (models/User.js).             *)
(*                                                                         *)
(* A JavaScript string is a sequence of one-character strings.  A          *)
(* JavaScript value is a tagged record: Str(s), Undefined, Null, Num(n),   *)
(* Bool(b), Obj(m), Arr(a).  The outcome of a call is either Return(v) or  *)
(* Throw(e).                                                               *)
(***************************************************************************)
EXTENDS Integers, Sequences, FiniteSets, TLC

VARIABLES
    text,       \* the argument handed to the normalizer function under test
    written,    \* the mapping the AI serialized into text, or NoMapping
    op,         \* the function that was applied ("none" before any)
    out,        \* the outcome of that call
    apiKey,     \* whether process.env.GEMINI_API_KEY is set
    response,   \* what fetch yields for the call to the generation API
    impl,       \* which find-places route the server mounts
    handlers,   \* the in-flight request handlers: position and locals of each
    users,      \* the documents of the user collection
    jwtSecret   \* whether process.env.JWT_SECRET is set

vars == <<text, written, op, out, apiKey, response, impl, handlers, users, jwtSecret>>

(***************************************************************************)
(* Bounds                                                                  *)
(***************************************************************************)
MaxAtoms == 4
NumHandlers == 2
\* requests served in a run of the two generation routes together
NumRequests == 1

(***************************************************************************)
(* JavaScript values and call outcomes                                     *)
(***************************************************************************)
Str(s) == [t |-> "string", s |-> s]
Num(n) == [t |-> "number", n |-> n]
Bool(b) == [t |-> "boolean", b |-> b]
Obj(m) == [t |-> "object", m |-> m]
Arr(a) == [t |-> "array", a |-> a]
Undefined == [t |-> "undefined"]
Null == [t |-> "null"]

Return(v) == [k |-> "return", v |-> v]
Throw(e) == [k |-> "throw", e |-> e]
NotCalled == [k |-> "none"]

\* written when text was not made by serializing a mapping
NoMapping == [some |-> FALSE, entries |-> <<>>]
Entries(e) == [some |-> TRUE, entries |-> e]

(***************************************************************************)
(* Character classes of the regular expressions                            *)
(***************************************************************************)
\* \s
WS == {" ", "\n", "\t"}
\* \d
Digits == {"0", "1", "2", "3", "4", "5", "6", "7", "8", "9"}

\* The backquote character U+0060, written as a tilde: the TLA+ lexer accepts
\* no backquote inside a string.
BackTick == "~"
Fence == <<BackTick, BackTick, BackTick>>
FenceJson == Fence \o <<"j", "s", "o", "n">>

SubStr(s, i, j) == [k \in 1..(j - i + 1) |-> s[i + k - 1]]

HasPrefixAt(s, i, p) ==
    /\ i + Len(p) - 1 <= Len(s)
    /\ \A k \in 1..Len(p) : s[i + k - 1] = p[k]

\* The index one past the longest run of characters of class C starting at i.
RECURSIVE RunEnd(_, _, _)
RunEnd(s, i, C) ==
    IF i <= Len(s) /\ s[i] \in C THEN RunEnd(s, i + 1, C) ELSE i

\* The index of the first character of the longest run of class C ending at i.
RECURSIVE RunStart(_, _, _)
RunStart(s, i, C) ==
    IF i >= 1 /\ s[i] \in C THEN RunStart(s, i - 1, C) ELSE i + 1

\* String.prototype.trim
Trim(s) ==
    LET b == RunEnd(s, 1, WS)
        e == RunStart(s, Len(s), WS) - 1
    IN  IF b > e THEN <<>> ELSE SubStr(s, b, e)

\* s.replace(/FENCEjson|FENCE/g, ''), FENCE being three backquotes
RECURSIVE ReplaceFencesFrom(_, _)
ReplaceFencesFrom(s, i) ==
    IF i > Len(s) THEN <<>>
    ELSE IF HasPrefixAt(s, i, FenceJson) THEN ReplaceFencesFrom(s, i + 7)
    ELSE IF HasPrefixAt(s, i, Fence) THEN ReplaceFencesFrom(s, i + 3)
    ELSE <<s[i]>> \o ReplaceFencesFrom(s, i + 1)

ReplaceFences(s) == ReplaceFencesFrom(s, 1)

\* s.replace(/\[C+\]/g, '') for a character class C: at each position, left to
\* right, a "[" followed by the longest non-empty run of C and then "]" is
\* dropped and scanning resumes after the "]".
RECURSIVE ReplaceBracketedFrom(_, _, _)
ReplaceBracketedFrom(s, i, C) ==
    IF i > Len(s) THEN <<>>
    ELSE LET e == RunEnd(s, i + 1, C)
         IN  IF s[i] = "[" /\ e > i + 1 /\ e <= Len(s) /\ s[e] = "]"
             THEN ReplaceBracketedFrom(s, e + 1, C)
             ELSE <<s[i]>> \o ReplaceBracketedFrom(s, i + 1, C)

\* s.replace(/\[\d+\]/g, '')
ReplaceDigitMarkers(s) == ReplaceBracketedFrom(s, 1, Digits)

\* s.replace(/\[[\d,\s]+\]/g, '')
ReplaceLooseMarkers(s) == ReplaceBracketedFrom(s, 1, Digits \cup {","} \cup WS)

\* html, matched case-insensitively (the i flag)
HtmlTagAt(s, i) ==
    /\ i + 3 <= Len(s)
    /\ s[i] \in {"h", "H"}
    /\ s[i + 1] \in {"t", "T"}
    /\ s[i + 2] \in {"m", "M"}
    /\ s[i + 3] \in {"l", "L"}

\* s.replace(/^FENCE(html)?\s*/i, ''): only at the very start, only once.
ReplaceLeadingFence(s) ==
    IF HasPrefixAt(s, 1, Fence)
    THEN LET a == IF HtmlTagAt(s, 4) THEN 8 ELSE 4
             b == RunEnd(s, a, WS)
         IN  SubStr(s, b, Len(s))
    ELSE s

\* s.replace(/\s*FENCE$/, ''): only at the very end, with the whitespace before.
ReplaceTrailingFence(s) ==
    IF Len(s) >= 3 /\ HasPrefixAt(s, Len(s) - 2, Fence)
    THEN SubStr(s, 1, RunStart(s, Len(s) - 3, WS) - 1)
    ELSE s

\* text.replace(...) on a text that is not a string throws TypeError.
NotAString(v) == v.t # "string"

(***************************************************************************)
(* The markup-stripping functions (stripMarkup of the specification)       *)
(***************************************************************************)
cleanAIResponseFlashLiteStr(s) == Trim(ReplaceDigitMarkers(ReplaceFences(s)))
cleanAIResponseFlashLite(v) ==
    IF NotAString(v) THEN Throw("TypeError") ELSE Return(Str(cleanAIResponseFlashLiteStr(v.s)))

cleanAIResponseStr(s) == Trim(ReplaceDigitMarkers(s))
cleanAIResponse(v) ==
    IF NotAString(v) THEN Throw("TypeError") ELSE Return(Str(cleanAIResponseStr(v.s)))

cleanHtmlResponseStr(s) ==
    Trim(ReplaceLooseMarkers(ReplaceTrailingFence(ReplaceLeadingFence(s))))
cleanHtmlResponse(v) ==
    IF NotAString(v) THEN Throw("TypeError") ELSE Return(Str(cleanHtmlResponseStr(v.s)))

cleanGeminiResponseStr(s) == Trim(ReplaceTrailingFence(ReplaceLeadingFence(s)))
cleanGeminiResponse(v) ==
    IF NotAString(v) THEN Throw("TypeError") ELSE Return(Str(cleanGeminiResponseStr(v.s)))

(***************************************************************************)
(* JSON.parse, over the characters the inputs are made of: objects,        *)
(* arrays, strings without escapes, unsigned integers, true, false, null.  *)
(* A parser step returns [ok, v, i]: the value read and the index after    *)
(* it, or Fail.                                                            *)
(***************************************************************************)
JsonWS == {" ", "\n", "\t", "\r"}
Quote == "\""
Fail == [ok |-> FALSE]
Ok(v, i) == [ok |-> TRUE, v |-> v, i |-> i]

\* The character at i, or "" past the end.
At(s, i) == IF i >= 1 /\ i <= Len(s) THEN s[i] ELSE ""

SkipWS(s, i) == RunEnd(s, i, JsonWS)

DigitValue(c) ==
    CASE c = "0" -> 0 [] c = "1" -> 1 [] c = "2" -> 2 [] c = "3" -> 3
      [] c = "4" -> 4 [] c = "5" -> 5 [] c = "6" -> 6 [] c = "7" -> 7
      [] c = "8" -> 8 [] c = "9" -> 9

RECURSIVE DigitsToInt(_)
DigitsToInt(d) ==
    IF d = <<>> THEN 0
    ELSE 10 * DigitsToInt(SubStr(d, 1, Len(d) - 1)) + DigitValue(d[Len(d)])

\* The index of the closing quote of the string whose first character is at
\* i, or 0 when the text ends or a control character comes first.
RECURSIVE StringEnd(_, _)
StringEnd(s, i) ==
    IF i > Len(s) THEN 0
    ELSE IF s[i] = Quote THEN i
    ELSE IF s[i] \in {"\n", "\t", "\r"} THEN 0
    ELSE StringEnd(s, i + 1)

ParseString(s, i) ==
    IF At(s, i) # Quote THEN Fail
    ELSE LET e == StringEnd(s, i + 1)
         IN  IF e = 0 THEN Fail ELSE Ok(Str(SubStr(s, i + 1, e - 1)), e + 1)

\* A number is 0, or a non-zero digit followed by digits.
ParseNumber(s, i) ==
    LET e == IF s[i] = "0" THEN i + 1 ELSE RunEnd(s, i, Digits)
    IN  Ok(Num(DigitsToInt(SubStr(s, i, e - 1))), e)

RECURSIVE ParseValue(_, _), ParseMembers(_, _, _), ParseElements(_, _, _)
ParseValue(s, i) ==
    LET c == At(s, i)
    IN  IF c = "{"
        THEN LET j == SkipWS(s, i + 1)
             IN  IF At(s, j) = "}" THEN Ok(Obj(<<>>), j + 1)
                 ELSE ParseMembers(s, j, <<>>)
        ELSE IF c = "["
        THEN LET j == SkipWS(s, i + 1)
             IN  IF At(s, j) = "]" THEN Ok(Arr(<<>>), j + 1)
                 ELSE ParseElements(s, j, <<>>)
        ELSE IF c = Quote THEN ParseString(s, i)
        ELSE IF c \in Digits THEN ParseNumber(s, i)
        ELSE IF HasPrefixAt(s, i, <<"t", "r", "u", "e">>)
        THEN Ok(Bool(TRUE), i + 4)
        ELSE IF HasPrefixAt(s, i, <<"f", "a", "l", "s", "e">>)
        THEN Ok(Bool(FALSE), i + 5)
        ELSE IF HasPrefixAt(s, i, <<"n", "u", "l", "l">>)
        THEN Ok(Null, i + 4)
        ELSE Fail

\* The members of an object from the key at i on; m holds the members read so
\* far, and a repeated key keeps its last value.
ParseMembers(s, i, m) ==
    LET key == ParseString(s, i)
    IN  IF ~key.ok THEN Fail
        ELSE LET c == SkipWS(s, key.i)
             IN  IF At(s, c) # ":" THEN Fail
                 ELSE LET val == ParseValue(s, SkipWS(s, c + 1))
                      IN  IF ~val.ok THEN Fail
                          ELSE LET d == SkipWS(s, val.i)
                                   m2 == (key.v.s :> val.v) @@ m
                               IN  IF At(s, d) = ","
                                   THEN ParseMembers(s, SkipWS(s, d + 1), m2)
                                   ELSE IF At(s, d) = "}"
                                   THEN Ok(Obj(m2), d + 1)
                                   ELSE Fail

ParseElements(s, i, a) ==
    LET val == ParseValue(s, i)
    IN  IF ~val.ok THEN Fail
        ELSE LET d == SkipWS(s, val.i)
                 a2 == Append(a, val.v)
             IN  IF At(s, d) = ","
                 THEN ParseElements(s, SkipWS(s, d + 1), a2)
                 ELSE IF At(s, d) = "]"
                 THEN Ok(Arr(a2), d + 1)
                 ELSE Fail

\* JSON.parse(s): the value, or a thrown SyntaxError.
JSONparse(s) ==
    LET r == ParseValue(s, SkipWS(s, 1))
    IN  IF r.ok /\ SkipWS(s, r.i) = Len(s) + 1
        THEN Return(r.v)
        ELSE Throw("SyntaxError")

(***************************************************************************)
(* The JSON-extracting functions (extractJSON of the specification)        *)
(***************************************************************************)
RECURSIVE IndexFrom(_, _, _)
IndexFrom(s, c, i) ==
    IF i > Len(s) THEN 0 ELSE IF s[i] = c THEN i ELSE IndexFrom(s, c, i + 1)

RECURSIVE LastIndexFrom(_, _, _)
LastIndexFrom(s, c, i) ==
    IF i < 1 THEN 0 ELSE IF s[i] = c THEN i ELSE LastIndexFrom(s, c, i - 1)

NoMatch == [found |-> FALSE]

\* s.match(/\{[\s\S]*\}/) and s.match(/\{.*\}/s): from the first "{", the
\* longest stretch that ends in "}".
MatchBraces(s) ==
    LET f == IndexFrom(s, "{", 1)
        l == LastIndexFrom(s, "}", Len(s))
    IN  IF f = 0 \/ l < f THEN NoMatch
        ELSE [found |-> TRUE, s |-> SubStr(s, f, l)]

\* s.replace(/,\s*([\]}])/g, '$1')
RECURSIVE FixTrailingCommasFrom(_, _)
FixTrailingCommasFrom(s, i) ==
    IF i > Len(s) THEN <<>>
    ELSE LET e == RunEnd(s, i + 1, WS)
         IN  IF s[i] = "," /\ At(s, e) \in {"]", "}"}
             THEN <<s[e]>> \o FixTrailingCommasFrom(s, e + 1)
             ELSE <<s[i]>> \o FixTrailingCommasFrom(s, i + 1)

FixTrailingCommas(s) == FixTrailingCommasFrom(s, 1)

\* !v
Falsy(v) ==
    \/ v.t \in {"undefined", "null"}
    \/ v.t = "string" /\ v.s = <<>>
    \/ v.t = "number" /\ v.n = 0
    \/ v.t = "boolean" /\ ~v.b

\* try { return JSON.parse(s) } catch (e) { return null }
ParseOrNull(s) ==
    LET r == JSONparse(s) IN IF r.k = "throw" THEN Return(Null) ELSE r

\* routes/places.js
cleanAndParseJSON(v) ==
    IF Falsy(v) THEN Return(Null)
    ELSE IF v.t # "string" THEN Throw("TypeError")
    ELSE LET cleanedText == Trim(ReplaceLooseMarkers(v.s))
             jsonMatch == MatchBraces(cleanedText)
         IN  IF ~jsonMatch.found THEN Return(Null)
             ELSE ParseOrNull(FixTrailingCommas(jsonMatch.s))

\* the unnamed variant of the find-places route
cleanAndParseJSONUnnamed(v) ==
    IF Falsy(v) THEN Return(Null)
    ELSE IF v.t # "string" THEN Throw("TypeError")
    ELSE LET cleanedText == Trim(ReplaceLooseMarkers(v.s))
             jsonMatch == MatchBraces(cleanedText)
         IN  IF ~jsonMatch.found THEN Return(Null)
             ELSE ParseOrNull(FixTrailingCommas(jsonMatch.s))

\* routes/map.js, the gemini-2.0-flash-lite routes
cleanAndParseJSONFlashLite(v) ==
    LET cleaned == cleanAIResponseFlashLite(v)
    IN  IF cleaned.k = "throw" THEN cleaned
        ELSE LET jsonMatch == MatchBraces(cleaned.v.s)
             IN  IF ~jsonMatch.found THEN Throw("Error")
                 ELSE JSONparse(jsonMatch.s)

\* routes/map.js, the gemini-2.5-flash routes
cleanAndParseJSONMap(v) ==
    LET cleaned == cleanAIResponse(v)
    IN  IF cleaned.k = "throw" THEN cleaned
        ELSE LET jsonMatch == MatchBraces(cleaned.v.s)
             IN  IF ~jsonMatch.found THEN Throw("Error")
                 ELSE JSONparse(jsonMatch.s)

(***************************************************************************)
(* callGeminiAPI.  fetch either rejects, or yields a response with its ok  *)
(* flag and its JSON body data.  A body is an object                       *)
(*   { candidates: [ { content: { parts: [ { text } ] } } ],               *)
(*     promptFeedback: { blockReason } }                                   *)
(* in which any field may be missing (Undefined) and either array empty.   *)
(***************************************************************************)
Rejected == [kind |-> "rejected"]
HttpResponse(ok, data) == [kind |-> "response", ok |-> ok, data |-> data]

Part(txt) == [t |-> "object", text |-> txt]
Content(parts) == [t |-> "object", parts |-> parts]
Candidate(content) == [t |-> "object", content |-> content]
Feedback(reason) == [t |-> "object", blockReason |-> reason]
Envelope(candidates, feedback) ==
    [t |-> "object", candidates |-> candidates, promptFeedback |-> feedback]

\* x.length of an array, Undefined of Undefined (the ?. chain)
LengthOf(x) == IF x.t = "array" THEN Len(x.a) ELSE 0

\* !data.candidates?.length
NoCandidates(data) == LengthOf(data.candidates) = 0

\* !data.candidates[0].content?.parts?.length
NoParts(data) ==
    LET content == data.candidates.a[1].content
    IN  content.t = "undefined" \/ LengthOf(content.parts) = 0

\* data.candidates[0].content.parts[0].text, or the TypeError of reading a
\* property of undefined on the way.
FirstText(data) ==
    IF data.candidates.t # "array" \/ data.candidates.a = <<>>
    THEN Throw("TypeError")
    ELSE LET content == data.candidates.a[1].content
         IN  IF content.t = "undefined" THEN Throw("TypeError")
             ELSE IF content.parts.t # "array" \/ content.parts.a = <<>>
             THEN Throw("TypeError")
             ELSE Return(content.parts.a[1].text)

\* The part of callGeminiAPI every variant shares: it throws without a key,
\* when fetch rejects and when the response is not ok.
NoBody(key, resp) == ~key \/ resp.kind = "rejected" \/ ~resp.ok
CallFailure(key, resp) ==
    IF key /\ resp.kind = "rejected" THEN Throw("TypeError") ELSE Throw("Error")

\* routes/places.js
callGeminiAPIBody(data) ==
    IF NoCandidates(data) \/ NoParts(data) THEN Return(Str(<<>>))
    ELSE FirstText(data)
callGeminiAPI(key, resp) ==
    IF NoBody(key, resp) THEN CallFailure(key, resp) ELSE callGeminiAPIBody(resp.data)

\* the unnamed variant of the find-places route
callGeminiAPIUnnamedBody(data) ==
    IF \/ NoCandidates(data) \/ NoParts(data)
       \/ data.candidates.a[1].content.parts.a[1].text.t # "string"
    THEN Return(Str(<<>>))
    ELSE FirstText(data)
callGeminiAPIUnnamed(key, resp) ==
    IF NoBody(key, resp) THEN CallFailure(key, resp) ELSE callGeminiAPIUnnamedBody(resp.data)

\* routes/map.js, the gemini-2.0-flash-lite routes
callGeminiAPIFlashLiteBody(data) == FirstText(data)
callGeminiAPIFlashLite(key, resp) ==
    IF NoBody(key, resp) THEN CallFailure(key, resp)
    ELSE callGeminiAPIFlashLiteBody(resp.data)

\* routes/map.js, the gemini-2.5-flash routes
callGeminiAPIMapBody(data) ==
    IF data.candidates.t = "undefined" \/ LengthOf(data.candidates) = 0
    THEN Throw("Error")
    ELSE FirstText(data)
callGeminiAPIMap(key, resp) ==
    IF NoBody(key, resp) THEN CallFailure(key, resp) ELSE callGeminiAPIMapBody(resp.data)

(***************************************************************************)
(* The raw texts the upstream generation API may hand over                 *)
(***************************************************************************)
RECURSIVE Flatten(_)
Flatten(ss) == IF ss = <<>> THEN <<>> ELSE Head(ss) \o Flatten(Tail(ss))

\* Every concatenation of at most n pieces taken from A.
ConcatsOf(A, n) == {Flatten(ss) : ss \in UNION {[1..k -> A] : k \in 0..n}}

\* Pieces of display text: backquotes and fences, language tags, brackets,
\* digits, a whole citation marker, a comma, whitespace, a letter.
MarkupAtoms ==
    { <<BackTick>>, Fence, <<"j", "s", "o", "n">>, <<"h", "t", "m", "l">>,
      <<"[">>, <<"]">>, <<"1">>, <<"[", "1", "]">>, <<",">>, <<" ">>, <<"a">> }

\* Pieces of JSON text.
JsonAtoms ==
    { <<"{">>, <<"}">>, <<Quote, "a", Quote>>, <<":">>, <<"1">>, <<",">>,
      <<" ">>, <<"[">>, <<"]">>, Fence }

\* JSON.stringify of a primitive value; the strings used have no character
\* that needs an escape.
RECURSIVE IntToDigits(_)
IntToDigits(n) ==
    LET d == <<"0", "1", "2", "3", "4", "5", "6", "7", "8", "9">>[(n % 10) + 1]
    IN  IF n < 10 THEN <<d>> ELSE Append(IntToDigits(n \div 10), d)

StringifyValue(v) ==
    CASE v.t = "string" -> <<Quote>> \o v.s \o <<Quote>>
      [] v.t = "number" -> IntToDigits(v.n)
      [] v.t = "boolean" ->
            IF v.b THEN <<"t", "r", "u", "e">> ELSE <<"f", "a", "l", "s", "e">>
      [] v.t = "null" -> <<"n", "u", "l", "l">>

\* The members "k":v of the entries e, joined by commas.
RECURSIVE StringifyMembers(_)
StringifyMembers(e) ==
    IF e = <<>> THEN <<>>
    ELSE LET m == <<Quote>> \o e[1][1] \o <<Quote, ":">> \o StringifyValue(e[1][2])
         IN  IF Len(e) = 1 THEN m ELSE m \o <<",">> \o StringifyMembers(Tail(e))

\* JSON.stringify(m), compact, of the mapping with the entries e in order.
JSONstringify(e) == <<"{">> \o StringifyMembers(e) \o <<"}">>

\* The mapping with the entries e.
MapOf(e) == [k \in {e[i][1] : i \in 1..Len(e)} |->
                e[CHOOSE i \in 1..Len(e) : e[i][1] = k][2]]

MaxEntries == 2
EntryKeys == { <<"a">>, <<"b">>, <<",", "}">> }
EntryValues ==
    { Num(1), Num(20), Bool(TRUE), Bool(FALSE), Null, Str(<<>>), Str(<<"a">>),
      Str(<<"[", "1", "]">>), Str(<<",", "}">>), Str(<<",", " ", "]">>) }

\* Ordered entries with distinct keys.
EntryLists ==
    { e \in UNION {[1..k -> EntryKeys \X EntryValues] : k \in 0..MaxEntries} :
        \A i, j \in 1..Len(e) : i # j => e[i][1] # e[j][1] }

NoisePrefix == <<"n", "o", "i", "s", "e", " ">>
NoiseSuffix == <<" ", "n", "o", "i", "s", "e">>

\* What the AI may put between the last member and the closing brace.
TrailingDefects == { <<>>, <<",">>, <<",", " ">> }

\* An AI output carrying the JSON object with the entries e.
AIOutput(pre, e, defect, post) ==
    pre \o <<"{">> \o StringifyMembers(e) \o defect \o <<"}">> \o post

(***************************************************************************)
(* POST /api/find-places, in its two variants.  Any number of requests are *)
(* in flight; a handler runs without interruption up to its next await,    *)
(* and the handlers interleave at the awaits.  The locals of each handler  *)
(* carry the names they have in the source.                                *)
(***************************************************************************)
Handlers == 1..NumHandlers

Unset == [t |-> "unset"]
NoReply == [k |-> "none"]
NoRes == [status |-> 0]

IdleHandler ==
    [ pc |-> "idle", route |-> "none", body |-> Unset, calls |-> <<>>,
      reply |-> NoReply,
      coordResponse |-> Unset, parsedCoords |-> Unset, startCoords |-> Null,
      rawPlacesHtml |-> Unset, cleanedPlacesHtml |-> Unset,
      res |-> NoRes, sent |-> 0 ]

\* req.body: whether state, district and language are given (truthy), and
\* whether startLocation is given and not blank.
RequestBodies ==
    { b \in [state : BOOLEAN, district : BOOLEAN, language : BOOLEAN,
             startLocation : BOOLEAN] :
        Cardinality({f \in {"state", "district", "language"} : ~b[f]}) <= 1 }

Lat == <<"l", "a", "t">>
Lon == <<"l", "o", "n">>
ErrorKey == <<"e", "r", "r", "o", "r">>

\* o.key of an object; undefined when the object has no such key.
Field(o, key) == IF key \in DOMAIN o.m THEN o.m[key] ELSE Undefined

\* cleanHtmlResponse of the unnamed variant
cleanHtmlResponseUnnamed(v) ==
    IF NotAString(v) THEN Throw("TypeError") ELSE Return(Str(cleanHtmlResponseStr(v.s)))

\* res.status(400).json({message})
Res400 == [status |-> 400, message |-> "Please provide state, district, and language."]
\* res.status(500).json({message})
Res500 == [status |-> 500, message |-> "Error finding tourist places."]
\* res.json({placesHtml, startLat, startLon})
Res200(html, coords) ==
    [ status |-> 200, placesHtml |-> html,
      startLat |-> IF coords = Null THEN Null ELSE Field(coords, Lat),
      startLon |-> IF coords = Null THEN Null ELSE Field(coords, Lon) ]

\* res.json(...) or res.status(...).json(...) as the handler's last statement
Respond(w, r) == [w EXCEPT !.res = r, !.sent = @ + 1, !.pc = "done"]

\* const x = await callGeminiAPI(...): the call is made and the handler waits.
Await(w, call, pc) == [w EXCEPT !.calls = Append(@, call), !.pc = pc]

\* The requests a handler has sent to the generation API: callGeminiAPI
\* throws before its fetch when no key is configured.
Fetches(w) == IF apiKey THEN Len(w.calls) ELSE 0

\* The handler up to its first await: validation, then the coordinate call
\* when a start location is given, the places call otherwise.
Receive(h, b) ==
    /\ handlers[h].pc = "idle"
    /\ handlers' = [handlers EXCEPT ![h] =
          LET w == [@ EXCEPT !.route = "find-places", !.body = b]
          IN  IF ~b.state \/ ~b.district \/ ~b.language
              THEN Respond(w, Res400)
              ELSE IF b.startLocation
              THEN Await(w, "coord", "awaitCoord")
              ELSE Await(w, "places", "awaitPlaces")]
    /\ UNCHANGED <<text, written, op, out, apiKey, response, impl, users, jwtSecret>>

\* The awaited callGeminiAPI settles, with a value or an exception.
Settle(h, resp) ==
    /\ handlers[h].pc \in {"awaitCoord", "awaitPlaces"}
    /\ handlers' = [handlers EXCEPT ![h] =
          [@ EXCEPT !.reply = IF impl = "places"
                              THEN callGeminiAPI(apiKey, resp)
                              ELSE callGeminiAPIUnnamed(apiKey, resp),
                    !.pc = IF @ = "awaitCoord"
                           THEN "coordSettled" ELSE "placesSettled"]]
    /\ UNCHANGED <<text, written, op, out, apiKey, response, impl, users, jwtSecret>>

\* ResumeCoordPlaces with the raw text kept in one place for all handlers:
\* the text normalized is the one of whichever handler's call returned.
ResumeCoordPlacesShared(w) ==
    LET shared == handlers[CHOOSE g \in Handlers :
                               handlers[g].reply.k = "return"].reply.v
        parsed == cleanAndParseJSON(shared)
    IN  IF w.reply.k = "throw"
        THEN Respond(w, Res500)
        ELSE IF parsed.k = "throw"
        THEN Respond([w EXCEPT !.coordResponse = w.reply.v], Res500)
        ELSE Await([w EXCEPT
                      !.coordResponse = w.reply.v,
                      !.parsedCoords = parsed.v,
                      !.startCoords =
                          IF parsed.v # Null /\ Field(parsed.v, Lat).t = "number"
                          THEN parsed.v ELSE Null],
                   "places", "awaitPlaces")

\* routes/places.js, from the coordinate call's await to the places call: an
\* exception goes to the route's catch.
ResumeCoordPlaces(w) ==
    IF w.reply.k = "throw"
    THEN Respond(w, Res500)
    ELSE LET parsed == cleanAndParseJSON(w.reply.v)
         IN  IF parsed.k = "throw"
             THEN Respond([w EXCEPT !.coordResponse = w.reply.v], Res500)
             ELSE Await([w EXCEPT
                           !.coordResponse = w.reply.v,
                           !.parsedCoords = parsed.v,
                           !.startCoords =
                               IF parsed.v # Null /\ Field(parsed.v, Lat).t = "number"
                               THEN parsed.v ELSE Null],
                        "places", "awaitPlaces")

\* The unnamed variant: the coordinate step has a try/catch of its own.
ResumeCoordUnnamed(w) ==
    IF w.reply.k = "throw"
    THEN Await([w EXCEPT !.startCoords = Null], "places", "awaitPlaces")
    ELSE LET parsed == cleanAndParseJSONUnnamed(w.reply.v)
         IN  IF parsed.k = "throw"
             THEN Await([w EXCEPT !.coordResponse = w.reply.v,
                                  !.startCoords = Null],
                        "places", "awaitPlaces")
             ELSE Await([w EXCEPT
                           !.coordResponse = w.reply.v,
                           !.parsedCoords = parsed.v,
                           !.startCoords =
                               IF /\ parsed.v # Null
                                  /\ Field(parsed.v, Lat).t = "number"
                                  /\ Field(parsed.v, Lon).t = "number"
                                  /\ Falsy(Field(parsed.v, ErrorKey))
                               THEN parsed.v ELSE Null],
                        "places", "awaitPlaces")

ResumeCoord(h) ==
    /\ handlers[h].pc = "coordSettled"
    /\ handlers' = [handlers EXCEPT ![h] =
          IF impl = "places" THEN ResumeCoordPlaces(@) ELSE ResumeCoordUnnamed(@)]
    /\ UNCHANGED <<text, written, op, out, apiKey, response, impl, users, jwtSecret>>

\* cleanHtmlResponse of the mounted variant
CleanPlaces(v) ==
    IF impl = "places" THEN cleanHtmlResponse(v) ELSE cleanHtmlResponseUnnamed(v)

\* From the places call's await to the response.
ResumePlacesOf(w) ==
    IF w.reply.k = "throw"
    THEN Respond(w, Res500)
    ELSE LET cleaned == CleanPlaces(w.reply.v)
         IN  IF cleaned.k = "throw"
             THEN Respond([w EXCEPT !.rawPlacesHtml = w.reply.v], Res500)
             ELSE Respond([w EXCEPT !.rawPlacesHtml = w.reply.v,
                                    !.cleanedPlacesHtml = cleaned.v],
                          Res200(cleaned.v, w.startCoords))

ResumePlaces(h) ==
    /\ handlers[h].pc = "placesSettled"
    /\ handlers' = [handlers EXCEPT ![h] = ResumePlacesOf(@)]
    /\ UNCHANGED <<text, written, op, out, apiKey, response, impl, users, jwtSecret>>

\* What the generation API answers to a handler's call.
TextBody(s) == Envelope(Arr(<<Candidate(Content(Arr(<<Part(Str(s))>>)))>>), Undefined)

\* {"lat":1,"lon":2,} [1]
CoordinatesText ==
    <<"{", Quote>> \o Lat \o <<Quote, ":", "1", ",", Quote>> \o Lon
        \o <<Quote, ":", "2", ",", "}", " ", "[", "1", "]">>

\* {"lat":1}
LatOnlyText == <<"{", Quote>> \o Lat \o <<Quote, ":", "1", "}">>

\* a fenced page with a citation marker
PlacesText == Fence \o <<"h", "t", "m", "l", "\n", "a", "[", "1", "]", "\n">> \o Fence

HandlerResponses ==
    { HttpResponse(FALSE, Envelope(Undefined, Undefined)),
      HttpResponse(TRUE, TextBody(CoordinatesText)),
      HttpResponse(TRUE, TextBody(LatOnlyText)),
      HttpResponse(TRUE, TextBody(PlacesText)),
      HttpResponse(TRUE, Envelope(Arr(<<Candidate(Content(Arr(<<Part(Undefined)>>)))>>),
                                  Undefined)) }

(***************************************************************************)
(* POST /api/plan-trip (routes/planner.js)                                 *)
(***************************************************************************)
\* req.body: whether interests, days, budget and language are given.
PlanBodies ==
    { b \in [interests : BOOLEAN, days : BOOLEAN, budget : BOOLEAN,
             language : BOOLEAN] :
        Cardinality({f \in {"interests", "days", "budget", "language"} : ~b[f]}) <= 1 }

PlanRes400 ==
    [status |-> 400, message |-> "Please provide interests, days, budget, and language."]
PlanRes500NoKey ==
    [status |-> 500, message |-> "AI service is currently unavailable. Administrator needs to configure the API key."]
PlanRes500 ==
    [status |-> 500, message |-> "An internal server error occurred while generating the plan."]
PlanRes200(html) == [status |-> 200, itinerary |-> html]

\* ReceivePlanOf with the request to the generation API sent first and the
\* body and the key looked at afterwards.
ReceivePlanOfEager(w, b) ==
    IF ~b.interests \/ ~b.days \/ ~b.budget \/ ~b.language
    THEN Respond([w EXCEPT !.calls = Append(@, "plan")], PlanRes400)
    ELSE IF ~apiKey
    THEN Respond([w EXCEPT !.calls = Append(@, "plan")], PlanRes500NoKey)
    ELSE Await(w, "plan", "awaitPlan")

\* The handler up to the await of fetch: validation, the key check, the
\* request.
ReceivePlanOf(w, b) ==
    IF ~b.interests \/ ~b.days \/ ~b.budget \/ ~b.language
    THEN Respond(w, PlanRes400)
    ELSE IF ~apiKey
    THEN Respond(w, PlanRes500NoKey)
    ELSE Await(w, "plan", "awaitPlan")

ReceivePlan(h, b) ==
    /\ handlers[h].pc = "idle"
    /\ handlers' = [handlers EXCEPT ![h] =
          ReceivePlanOf([@ EXCEPT !.route = "plan-trip", !.body = b], b)]
    /\ UNCHANGED <<text, written, op, out, apiKey, response, impl, users, jwtSecret>>

\* await fetch, the geminiResponse.ok check, await geminiResponse.json() and
\* geminiData.candidates[0].content.parts[0].text
PlanFetch(resp) ==
    IF resp.kind = "rejected" THEN Throw("TypeError")
    ELSE IF ~resp.ok THEN Throw("Error")
    ELSE FirstText(resp.data)

SettlePlan(h, resp) ==
    /\ handlers[h].pc = "awaitPlan"
    /\ handlers' = [handlers EXCEPT ![h] =
          [@ EXCEPT !.reply = PlanFetch(resp), !.pc = "planSettled"]]
    /\ UNCHANGED <<text, written, op, out, apiKey, response, impl, users, jwtSecret>>

\* cleanGeminiResponse(generatedText) and the response; an exception goes to
\* the catch.
ResumePlanOf(w) ==
    IF w.reply.k = "throw"
    THEN Respond(w, PlanRes500)
    ELSE LET cleanedHtml == cleanGeminiResponse(w.reply.v)
         IN  IF cleanedHtml.k = "throw"
             THEN Respond(w, PlanRes500)
             ELSE Respond(w, PlanRes200(cleanedHtml.v))

ResumePlan(h) ==
    /\ handlers[h].pc = "planSettled"
    /\ handlers' = [handlers EXCEPT ![h] = ResumePlanOf(@)]
    /\ UNCHANGED <<text, written, op, out, apiKey, response, impl, users, jwtSecret>>

IdleHandlers == [h \in Handlers |-> IdleHandler]

InitHandlers ==
    /\ text = Undefined
    /\ written = NoMapping
    /\ op = "none"
    /\ out = NotCalled
    /\ apiKey \in BOOLEAN
    /\ response = Rejected
    /\ impl \in {"places", "unnamed"}
    /\ handlers = IdleHandlers
    /\ users = {}
    /\ jwtSecret = TRUE

NextHandlers ==
    \E h \in Handlers :
        \/ \E b \in RequestBodies : Receive(h, b)
        \/ \E resp \in HandlerResponses : Settle(h, resp)
        \/ ResumeCoord(h)
        \/ ResumePlaces(h)

SpecHandlers == InitHandlers /\ [][NextHandlers]_vars

\* The requests of both routes, NumRequests of them in a run.
RouteHandlers == {h \in Handlers : h <= NumRequests}

InitRoutes == InitHandlers

NextRoutes ==
    \E h \in RouteHandlers :
        \/ \E b \in RequestBodies : Receive(h, b)
        \/ \E resp \in HandlerResponses : Settle(h, resp)
        \/ ResumeCoord(h)
        \/ ResumePlaces(h)
        \/ \E b \in PlanBodies : ReceivePlan(h, b)
        \/ \E resp \in HandlerResponses \cup {Rejected} : SettlePlan(h, resp)
        \/ ResumePlan(h)

SpecRoutes == InitRoutes /\ [][NextRoutes]_vars

(***************************************************************************)
(* POST /api/map/search, /query, /history and /weather (routes/map.js, the *)
(* gemini-2.5-flash routes).  No route validates its body.                 *)
(***************************************************************************)
MapRoutes == {"search", "query", "history", "weather"}

IdleMapHandler ==
    [ pc |-> "idle", route |-> "none", calls |-> <<>>, reply |-> NoReply,
      data |-> Unset, res |-> NoRes, sent |-> 0 ]

Name == <<"n", "a", "m", "e">>

\* The placeholder image address built from locationData.name
ImageUrl(name) == [t |-> "string", placeholderFor |-> name]
ImageUrlKey == <<"i", "m", "a", "g", "e", "U", "r", "l">>

\* The catch of each route
MapRes500(route) ==
    [ status |-> 500,
      message |-> CASE route = "search" -> "Error processing your search."
                    [] route = "query" -> "Could not get an answer from the AI."
                    [] route = "history" -> "Could not generate history."
                    [] route = "weather" -> "Error processing weather request." ]
\* res.json(body)
MapRes200(body) == [status |-> 200, body |-> body]
\* res.status(404).json({message: weatherData.error})
MapRes404(message) == [status |-> 404, message |-> message]

\* The handler up to its await of callGeminiAPI.
ReceiveMap(h, route) ==
    /\ handlers[h].pc = "idle"
    /\ handlers' = [handlers EXCEPT ![h] =
          Await([@ EXCEPT !.route = route], route, "awaitMap")]
    /\ UNCHANGED <<text, written, op, out, apiKey, response, impl, users, jwtSecret>>

SettleMap(h, resp) ==
    /\ handlers[h].pc = "awaitMap"
    /\ handlers' = [handlers EXCEPT ![h] =
          [@ EXCEPT !.reply = callGeminiAPIMap(apiKey, resp), !.pc = "mapSettled"]]
    /\ UNCHANGED <<text, written, op, out, apiKey, response, impl, users, jwtSecret>>

\* /search from cleanAndParseJSON(aiResponse) on
ResumeSearch(w) ==
    LET locationData == cleanAndParseJSONMap(w.reply.v)
    IN  IF locationData.k = "throw" THEN Respond(w, MapRes500("search"))
        ELSE IF ~Falsy(Field(locationData.v, ErrorKey))
        THEN Respond([w EXCEPT !.data = locationData.v], MapRes200(Arr(<<>>)))
        ELSE Respond([w EXCEPT !.data = locationData.v],
                     MapRes200(Arr(<<Obj(
                         (Name :> Field(locationData.v, Name))
                      @@ (Lat :> Field(locationData.v, Lat))
                      @@ (Lon :> Field(locationData.v, Lon))
                      @@ (ImageUrlKey :> ImageUrl(Field(locationData.v, Name))))>>)))

\* /weather from cleanAndParseJSON(aiResponse) on
ResumeWeather(w) ==
    LET weatherData == cleanAndParseJSONMap(w.reply.v)
    IN  IF weatherData.k = "throw" THEN Respond(w, MapRes500("weather"))
        ELSE IF ~Falsy(Field(weatherData.v, ErrorKey))
        THEN Respond([w EXCEPT !.data = weatherData.v],
                     MapRes404(Field(weatherData.v, ErrorKey)))
        ELSE Respond([w EXCEPT !.data = weatherData.v], MapRes200(weatherData.v))

\* /query and /history from cleanAIResponse on
ResumeAnswer(w) ==
    LET cleaned == cleanAIResponse(w.reply.v)
    IN  IF cleaned.k = "throw" THEN Respond(w, MapRes500(w.route))
        ELSE Respond([w EXCEPT !.data = cleaned.v], MapRes200(cleaned.v))

ResumeMap(h) ==
    /\ handlers[h].pc = "mapSettled"
    /\ handlers' = [handlers EXCEPT ![h] =
          IF @.reply.k = "throw" THEN Respond(@, MapRes500(@.route))
          ELSE IF @.route = "search" THEN ResumeSearch(@)
          ELSE IF @.route = "weather" THEN ResumeWeather(@)
          ELSE ResumeAnswer(@)]
    /\ UNCHANGED <<text, written, op, out, apiKey, response, impl, users, jwtSecret>>

\* The texts the generation API answers the map routes with: a location, a
\* weather report, an error report, an error key with an empty text, a text
\* without a JSON object, a text between braces that is no JSON.
MapTexts ==
    { JSONstringify(<< <<Name, Str(<<"a">>)>>, <<Lat, Num(1)>>, <<Lon, Num(2)>> >>),
      JSONstringify(<< <<<<"t", "e", "m", "p">>, Num(1)>> >>),
      JSONstringify(<< <<ErrorKey, Str(<<"x">>)>> >>),
      JSONstringify(<< <<ErrorKey, Str(<<>>)>> >>),
      <<"a", "[", "1", "]">>,
      <<"{", "a", "}">> }

MapResponses ==
    { Rejected,
      HttpResponse(FALSE, Envelope(Undefined, Undefined)),
      HttpResponse(TRUE, Envelope(Arr(<<>>), Undefined)),
      HttpResponse(TRUE, Envelope(Arr(<<Candidate(Content(Arr(<<Part(Undefined)>>)))>>),
                                  Undefined)) }
        \cup { HttpResponse(TRUE, TextBody(t)) : t \in MapTexts }

InitMap ==
    /\ text = Undefined
    /\ written = NoMapping
    /\ op = "none"
    /\ out = NotCalled
    /\ apiKey \in BOOLEAN
    /\ response = Rejected
    /\ impl = "places"
    /\ handlers = [h \in Handlers |-> IdleMapHandler]
    /\ users = {}
    /\ jwtSecret = TRUE

NextMap ==
    \E h \in Handlers :
        \/ \E route \in MapRoutes : ReceiveMap(h, route)
        \/ \E resp \in MapResponses : SettleMap(h, resp)
        \/ ResumeMap(h)

SpecMap == InitMap /\ [][NextMap]_vars

(***************************************************************************)
(* POST /api/auth/signup, POST /api/auth/login and GET /api/auth/profile   *)
(* (routes/auth.js) over the user collection (models/User.js).  The        *)
(* requests interleave at the awaits; a query and the code up to the next  *)
(* await make one step.  Bodies carry no phone.                            *)
(***************************************************************************)
Usernames == {"u1", "u2"}
Emails == {"e1", "e2"}
Passwords == {"p1", "p2"}

\* bcrypt.hash(password, salt)
bcryptHash(password) == [bcrypt |-> password]
\* bcrypt.compare(password, hash)
bcryptCompare(password, hash) == hash.bcrypt = password

\* A document of the collection
User(id, username, email, password) ==
    [id |-> id, username |-> username, email |-> email, password |-> password]

\* A user registered before the run
SeedUser == User(1, "u1", "e1", bcryptHash("p1"))

\* The unique indexes of UserSchema on username and on email: whether a
\* document with this username or this email is stored.
Taken(username, email) ==
    \E u \in users : u.username = username \/ u.email = email

IdleAuthHandler ==
    [ pc |-> "idle", route |-> "none", body |-> Unset, token |-> Unset,
      user |-> Unset, res |-> NoRes, sent |-> 0 ]

\* req.body of a signup; complete when username, password, email, state and
\* dob are all given.
SignupBodies ==
    [username : Usernames, email : Emails, password : {"p1"}, complete : {TRUE}]
        \cup {[username |-> "u1", email |-> "e1", password |-> "p1", complete |-> FALSE]}

\* req.body of a login; complete when username and password are given.
LoginBodies ==
    [username : Usernames, password : Passwords, complete : {TRUE}]
        \cup {[username |-> "u1", password |-> "p1", complete |-> FALSE]}

SignupRes400 == [status |-> 400, message |-> "Please fill in all required fields."]
SignupRes400Exists == [status |-> 400, message |-> "Username or email already exists"]
SignupRes201 == [status |-> 201, message |-> "User registered successfully! Please log in."]
SignupRes500 == [status |-> 500, body |-> "Server error during user registration."]

LoginRes400 == [status |-> 400, message |-> "Please provide a username and password."]
InvalidCredentials == [status |-> 400, message |-> "Invalid credentials"]
LoginRes200(token) == [status |-> 200, token |-> token, message |-> "Login successful!"]
LoginRes500 == [status |-> 500, body |-> "Server error during login."]

NoTokenRes401 == [status |-> 401, message |-> "No token, authorization denied"]
InvalidTokenRes401 == [status |-> 401, message |-> "Token is not valid"]
ProfileRes404 == [status |-> 404, message |-> "User not found"]
\* res.json(user) of the document without its password
ProfileRes200(u) ==
    [status |-> 200, user |-> [id |-> u.id, username |-> u.username, email |-> u.email]]

\* signup up to await User.findOne
ReceiveSignup(h, b) ==
    /\ handlers[h].pc = "idle"
    /\ handlers' = [handlers EXCEPT ![h] =
          LET w == [@ EXCEPT !.route = "signup", !.body = b]
          IN  IF ~b.complete THEN Respond(w, SignupRes400)
              ELSE [w EXCEPT !.pc = "awaitFindOne"]]
    /\ UNCHANGED <<text, written, op, out, apiKey, response, impl, users, jwtSecret>>

\* User.findOne({$or: [{username}, {email}]}) and the code up to the awaits
\* of bcrypt and user.save()
SignupFound(w) ==
    IF Taken(w.body.username, w.body.email)
    THEN Respond(w, SignupRes400Exists)
    ELSE [w EXCEPT !.user = User(Unset, w.body.username, w.body.email,
                                 bcryptHash(w.body.password)),
                   !.pc = "awaitSave"]

SignupFindOne(h) ==
    /\ handlers[h].pc = "awaitFindOne"
    /\ handlers[h].route = "signup"
    /\ handlers' = [handlers EXCEPT ![h] = SignupFound(@)]
    /\ UNCHANGED <<text, written, op, out, apiKey, response, impl, users, jwtSecret>>

\* user.save(): the insert fails on a unique index when the username or the
\* email is stored by now, and the catch answers.
SignupSave(h) ==
    /\ handlers[h].pc = "awaitSave"
    /\ LET w == handlers[h]
       IN  IF Taken(w.user.username, w.user.email)
           THEN /\ handlers' = [handlers EXCEPT ![h] = Respond(w, SignupRes500)]
                /\ users' = users
           ELSE /\ users' = users \cup
                      {[w.user EXCEPT !.id = Cardinality(users) + 1]}
                /\ handlers' = [handlers EXCEPT ![h] = Respond(w, SignupRes201)]
    /\ UNCHANGED <<text, written, op, out, apiKey, response, impl, jwtSecret>>

\* login up to await User.findOne
ReceiveLogin(h, b) ==
    /\ handlers[h].pc = "idle"
    /\ handlers' = [handlers EXCEPT ![h] =
          LET w == [@ EXCEPT !.route = "login", !.body = b]
          IN  IF ~b.complete THEN Respond(w, LoginRes400)
              ELSE [w EXCEPT !.pc = "awaitFindOne"]]
    /\ UNCHANGED <<text, written, op, out, apiKey, response, impl, users, jwtSecret>>

\* User.findOne({username}) and the code up to await bcrypt.compare
LoginFound(w) ==
    IF \E u \in users : u.username = w.body.username
    THEN [w EXCEPT !.user = CHOOSE u \in users : u.username = w.body.username,
                   !.pc = "awaitCompare"]
    ELSE Respond([w EXCEPT !.user = Null], InvalidCredentials)

LoginFindOne(h) ==
    /\ handlers[h].pc = "awaitFindOne"
    /\ handlers[h].route = "login"
    /\ handlers' = [handlers EXCEPT ![h] = LoginFound(@)]
    /\ UNCHANGED <<text, written, op, out, apiKey, response, impl, users, jwtSecret>>

\* bcrypt.compare and the call of jwt.sign.  Without a secret jwt.sign hands
\* the error to the callback before it returns: the callback's throw is
\* inside the try and the catch answers.  Otherwise the token is signed
\* after the handler has returned.
LoginCompared(w) ==
    IF ~bcryptCompare(w.body.password, w.user.password)
    THEN Respond(w, InvalidCredentials)
    ELSE IF ~jwtSecret THEN Respond(w, LoginRes500)
    ELSE [w EXCEPT !.pc = "awaitSign"]

LoginCompare(h) ==
    /\ handlers[h].pc = "awaitCompare"
    /\ handlers' = [handlers EXCEPT ![h] = LoginCompared(@)]
    /\ UNCHANGED <<text, written, op, out, apiKey, response, impl, users, jwtSecret>>

\* The payload of a token with its signature and its expiry.
Token(id) == [user |-> [id |-> id], signed |-> TRUE, expired |-> FALSE]

\* The callback of jwt.sign, called once the handler has returned: with the
\* token, or with the error of the signing stream, which it throws with no
\* try around it.
LoginSigned(w, err) ==
    IF err THEN [w EXCEPT !.pc = "crashed"]
    ELSE Respond(w, LoginRes200(Token(w.user.id)))

LoginSign(h, err) ==
    /\ handlers[h].pc = "awaitSign"
    /\ handlers' = [handlers EXCEPT ![h] = LoginSigned(@, err)]
    /\ UNCHANGED <<text, written, op, out, apiKey, response, impl, users, jwtSecret>>

\* jwt.verify(token, process.env.JWT_SECRET) returns the payload
Verifies(token) == jwtSecret /\ token.signed /\ ~token.expired

NoToken == Undefined
ForgedToken == [user |-> [id |-> 1], signed |-> FALSE, expired |-> FALSE]

\* protect with the payload of the token read without its verification.
protectDecoded(w) ==
    IF w.token = NoToken THEN Respond(w, NoTokenRes401)
    ELSE [w EXCEPT !.user = w.token.user, !.pc = "awaitFindById"]

\* The middleware protect: req.user = decoded.user; next()
protect(w) ==
    IF w.token = NoToken THEN Respond(w, NoTokenRes401)
    ELSE IF ~Verifies(w.token) THEN Respond(w, InvalidTokenRes401)
    ELSE [w EXCEPT !.user = w.token.user, !.pc = "awaitFindById"]

\* The tokens the logins of the run have answered with.
IssuedTokens ==
    { handlers[g].res.token :
        g \in {g \in Handlers : /\ handlers[g].route = "login"
                                /\ handlers[g].res.status = 200} }

\* What a profile request may carry: nothing, a token signed by someone
\* else, an issued token, an issued token past its five hours.
RequestTokens ==
    {NoToken, ForgedToken} \cup IssuedTokens
        \cup {[t EXCEPT !.expired = TRUE] : t \in IssuedTokens}

\* Every token there is for the users the store can hold.
Tokens ==
    {NoToken, ForgedToken}
        \cup {[Token(id) EXCEPT !.expired = e] :
                id \in 1..Cardinality(Usernames), e \in BOOLEAN}

\* profile up to await User.findById
ReceiveProfile(h, token) ==
    /\ handlers[h].pc = "idle"
    /\ token \in RequestTokens
    /\ handlers' = [handlers EXCEPT ![h] =
          protect([@ EXCEPT !.route = "profile", !.token = token])]
    /\ UNCHANGED <<text, written, op, out, apiKey, response, impl, users, jwtSecret>>

\* User.findById(req.user.id).select('-password') and the response
ProfileFound(w) ==
    IF \E u \in users : u.id = w.user.id
    THEN Respond(w, ProfileRes200(CHOOSE u \in users : u.id = w.user.id))
    ELSE Respond(w, ProfileRes404)

ProfileFindById(h) ==
    /\ handlers[h].pc = "awaitFindById"
    /\ handlers' = [handlers EXCEPT ![h] = ProfileFound(@)]
    /\ UNCHANGED <<text, written, op, out, apiKey, response, impl, users, jwtSecret>>

InitAuth ==
    /\ text = Undefined
    /\ written = NoMapping
    /\ op = "none"
    /\ out = NotCalled
    /\ apiKey = TRUE
    /\ response = Rejected
    /\ impl = "places"
    /\ handlers = [h \in Handlers |-> IdleAuthHandler]
    /\ users \in {{}, {SeedUser}}
    /\ jwtSecret \in BOOLEAN

NextAuth ==
    \E h \in Handlers :
        \/ \E b \in SignupBodies : ReceiveSignup(h, b)
        \/ SignupFindOne(h)
        \/ SignupSave(h)
        \/ \E b \in LoginBodies : ReceiveLogin(h, b)
        \/ LoginFindOne(h)
        \/ LoginCompare(h)
        \/ \E err \in BOOLEAN : LoginSign(h, err)
        \/ \E token \in Tokens : ReceiveProfile(h, token)
        \/ ProfileFindById(h)

SpecAuth == InitAuth /\ [][NextAuth]_vars

(***************************************************************************)
(* The normalizer applied to one raw text                                  *)
(***************************************************************************)
Apply(name, result) ==
    /\ op = "none"
    /\ op' = name
    /\ out' = result
    /\ UNCHANGED <<text, written, apiKey, response, impl, handlers, users, jwtSecret>>

ApplyCleanAIResponseFlashLite ==
    Apply("cleanAIResponseFlashLite", cleanAIResponseFlashLite(text))
ApplyCleanAIResponse == Apply("cleanAIResponse", cleanAIResponse(text))
ApplyCleanHtmlResponse == Apply("cleanHtmlResponse", cleanHtmlResponse(text))
ApplyCleanGeminiResponse ==
    Apply("cleanGeminiResponse", cleanGeminiResponse(text))

ApplyCleanAndParseJSON == Apply("cleanAndParseJSON", cleanAndParseJSON(text))
ApplyCleanAndParseJSONUnnamed ==
    Apply("cleanAndParseJSONUnnamed", cleanAndParseJSONUnnamed(text))
ApplyCleanAndParseJSONFlashLite ==
    Apply("cleanAndParseJSONFlashLite", cleanAndParseJSONFlashLite(text))
ApplyCleanAndParseJSONMap ==
    Apply("cleanAndParseJSONMap", cleanAndParseJSONMap(text))

\* stripMarkup on every short text, and on an absent text
InitStrip ==
    /\ text \in {Str(s) : s \in ConcatsOf(MarkupAtoms, MaxAtoms)}
                   \cup {Undefined, Null}
    /\ written = NoMapping
    /\ op = "none"
    /\ out = NotCalled
    /\ apiKey = TRUE
    /\ response = Rejected
    /\ impl = "places"
    /\ handlers = IdleHandlers
    /\ users = {}
    /\ jwtSecret = TRUE

NextStrip ==
    \/ ApplyCleanAIResponseFlashLite
    \/ ApplyCleanAIResponse
    \/ ApplyCleanHtmlResponse
    \/ ApplyCleanGeminiResponse

SpecStrip == InitStrip /\ [][NextStrip]_vars

\* extractJSON on every short text, on an absent text, and on AI outputs that
\* carry a serialized mapping
InitJSON ==
    /\ op = "none"
    /\ out = NotCalled
    /\ apiKey = TRUE
    /\ response = Rejected
    /\ impl = "places"
    /\ handlers = IdleHandlers
    /\ users = {}
    /\ jwtSecret = TRUE
    /\ \/ /\ text \in {Str(s) : s \in ConcatsOf(JsonAtoms, MaxAtoms)}
                         \cup {Undefined, Null}
          /\ written = NoMapping
       \/ \E e \in EntryLists, defect \in TrailingDefects,
             noise \in {<<<<>>, <<>>>>, <<NoisePrefix, NoiseSuffix>>} :
            /\ text = Str(AIOutput(noise[1], e, defect, noise[2]))
            /\ written = Entries(e)

NextJSON ==
    \/ ApplyCleanAndParseJSON
    \/ ApplyCleanAndParseJSONUnnamed
    \/ ApplyCleanAndParseJSONFlashLite
    \/ ApplyCleanAndParseJSONMap

SpecJSON == InitJSON /\ [][NextJSON]_vars

(***************************************************************************)
(* callGeminiAPI applied to one upstream response                          *)
(***************************************************************************)
PartTexts == {Undefined, Str(<<>>), Str(<<"a">>), Num(1)}
PartsShapes == {Undefined, Arr(<<>>)} \cup {Arr(<<Part(x)>>) : x \in PartTexts}
ContentShapes == {Undefined} \cup {Content(x) : x \in PartsShapes}
CandidatesShapes ==
    {Undefined, Arr(<<>>)} \cup {Arr(<<Candidate(c)>>) : c \in ContentShapes}
FeedbackShapes ==
    {Undefined, Feedback(Undefined), Feedback(Str(<<"S", "A", "F", "E", "T", "Y">>))}
Bodies == {Envelope(c, f) : c \in CandidatesShapes, f \in FeedbackShapes}
Responses ==
    {Rejected} \cup {HttpResponse(ok, d) : ok \in BOOLEAN, d \in Bodies}

ApplyCallGeminiAPI == Apply("callGeminiAPI", callGeminiAPI(apiKey, response))
ApplyCallGeminiAPIUnnamed ==
    Apply("callGeminiAPIUnnamed", callGeminiAPIUnnamed(apiKey, response))
ApplyCallGeminiAPIFlashLite ==
    Apply("callGeminiAPIFlashLite", callGeminiAPIFlashLite(apiKey, response))
ApplyCallGeminiAPIMap ==
    Apply("callGeminiAPIMap", callGeminiAPIMap(apiKey, response))

InitGemini ==
    /\ text = Undefined
    /\ written = NoMapping
    /\ op = "none"
    /\ out = NotCalled
    /\ apiKey \in BOOLEAN
    /\ response \in Responses
    /\ impl = "places"
    /\ handlers = IdleHandlers
    /\ users = {}
    /\ jwtSecret = TRUE

NextGemini ==
    \/ ApplyCallGeminiAPI
    \/ ApplyCallGeminiAPIUnnamed
    \/ ApplyCallGeminiAPIFlashLite
    \/ ApplyCallGeminiAPIMap

SpecGemini == InitGemini /\ [][NextGemini]_vars

(***************************************************************************)
(* Vocabulary of the properties                                            *)
(***************************************************************************)
StripOps ==
    { "cleanAIResponseFlashLite", "cleanAIResponse", "cleanHtmlResponse",
      "cleanGeminiResponse" }

\* The markup-stripping function called name, applied to the value v.
StripMarkup(name, v) ==
    CASE name = "cleanAIResponseFlashLite" -> cleanAIResponseFlashLite(v)
      [] name = "cleanAIResponse" -> cleanAIResponse(v)
      [] name = "cleanHtmlResponse" -> cleanHtmlResponse(v)
      [] name = "cleanGeminiResponse" -> cleanGeminiResponse(v)

\* A fence delimiter: three backquotes in a row, anywhere.
ContainsFence(s) == \E i \in 1..Len(s) : HasPrefixAt(s, i, Fence)

\* From the digit group that starts at i: digits, then either the closing
\* bracket or a comma, optional whitespace and a further digit group.
RECURSIVE DigitGroupsCloseFrom(_, _)
DigitGroupsCloseFrom(s, i) ==
    LET e == RunEnd(s, i, Digits)
    IN  /\ e > i
        /\ \/ At(s, e) = "]"
           \/ At(s, e) = "," /\ DigitGroupsCloseFrom(s, RunEnd(s, e + 1, WS))

\* A citation marker: [1], [12], [2, 7], [1,4].
ContainsCitation(s) ==
    \E i \in 1..Len(s) : s[i] = "[" /\ DigitGroupsCloseFrom(s, i + 1)

Stripped == op \in StripOps /\ out.k = "return"

\* C1: applying a markup-stripping function to its own output returns that
\* output unchanged.
C1_StripMarkupIdempotent ==
    Stripped => StripMarkup(op, out.v) = out

\* C4: stripMarkup always succeeds with a string; for an empty or an absent
\* raw text the result is the empty string.
C4_StripMarkupAlwaysSucceeds ==
    op \in StripOps =>
        /\ out.k = "return"
        /\ out.v.t = "string"
        /\ (text \in {Str(<<>>), Undefined, Null} => out.v = Str(<<>>))

\* C5: the output of stripMarkup contains no fence delimiter and no citation
\* marker.
C5_OutputFreeOfMarkup ==
    (Stripped /\ op # "cleanGeminiResponse")
        => ~ContainsFence(out.v.s) /\ ~ContainsCitation(out.v.s)

\* C6: on a string with no fence delimiter and no citation marker, stripMarkup
\* only trims.
C6_PlainTextOnlyTrimmed ==
    (Stripped /\ ~ContainsFence(text.s) /\ ~ContainsCitation(text.s))
        => out.v = Str(Trim(text.s))

ExtractOps == {"cleanAndParseJSON", "cleanAndParseJSONUnnamed"}
ParseOps == ExtractOps \cup {"cleanAndParseJSONFlashLite", "cleanAndParseJSONMap"}

\* C2: extractJSON("noise " + j + " noise"), j the compact serialization of a
\* mapping with primitive values, returns that mapping.
C2_RoundTrip ==
    (/\ op \in ExtractOps
     /\ written.some
     /\ text = Str(NoisePrefix \o JSONstringify(written.entries) \o NoiseSuffix))
        => out = Return(Obj(MapOf(written.entries)))

HasBraceSpan(s) ==
    \E i, j \in 1..Len(s) : i < j /\ s[i] = "{" /\ s[j] = "}"

\* The text each extractor bounds its candidate in.
CleanedText(name, s) ==
    CASE name \in ExtractOps -> Trim(ReplaceLooseMarkers(s))
      [] name = "cleanAndParseJSONFlashLite" -> cleanAIResponseFlashLiteStr(s)
      [] name = "cleanAndParseJSONMap" -> cleanAIResponseStr(s)

\* C3: every cleanAndParseJSON returns a mapping or null and never throws;
\* null on absent or empty text and on a text without a brace span.
C3_ExtractNeverRaises ==
    op \in ParseOps =>
        /\ out.k = "return"
        /\ out.v.t \in {"object", "null"}
        /\ (text.t # "string" => out.v = Null)
        /\ (text.t = "string" /\ ~HasBraceSpan(CleanedText(op, text.s))
                => out.v = Null)

\* C9: when extractJSON succeeds on an AI output, the mapping returned has
\* exactly the keys and values written in the output's JSON object.
C9_RepairKeepsKeysAndValues ==
    (op \in ExtractOps /\ written.some /\ out.k = "return" /\ out.v # Null)
        => out.v = Obj(MapOf(written.entries))

\* The inclusive substring from the first "{" to the last "}".
FirstToLastBrace(s) ==
    LET f == CHOOSE i \in 1..Len(s) :
                 s[i] = "{" /\ \A j \in 1..(i - 1) : s[j] # "{"
        l == CHOOSE i \in 1..Len(s) :
                 s[i] = "}" /\ \A j \in (i + 1)..Len(s) : s[j] # "}"
    IN  SubStr(s, f, l)

\* C10: the candidate is the inclusive substring of the cleaned text from its
\* first "{" to its last "}"; without such a span the result is null.
C10_CandidateIsFirstToLastBrace ==
    (op \in ExtractOps \cup {"cleanAndParseJSONFlashLite"} /\ text.t = "string")
        => LET cleaned == CleanedText(op, text.s)
           IN  IF HasBraceSpan(cleaned)
               THEN out = IF op \in ExtractOps
                          THEN ParseOrNull(FixTrailingCommas(FirstToLastBrace(cleaned)))
                          ELSE JSONparse(FirstToLastBrace(cleaned))
               ELSE out = Return(Null)

\* The text field of the first candidate's first part, when the body has one.
HasFirstText(data) ==
    /\ ~NoCandidates(data)
    /\ ~NoParts(data)
    /\ data.candidates.a[1].content.parts.a[1].text.t = "string"

\* C7: on an HTTP-ok response callGeminiAPI returns a string: the text of the
\* first candidate when present, the empty string for a blocked or malformed
\* body; it neither returns undefined nor throws.
C7_CallReturnsString ==
    (/\ op \in {"callGeminiAPI", "callGeminiAPIUnnamed", "callGeminiAPIMap"}
     /\ apiKey
     /\ response.kind = "response"
     /\ response.ok)
        => out = IF HasFirstText(response.data)
                 THEN Return(response.data.candidates.a[1].content.parts.a[1].text)
                 ELSE Return(Str(<<>>))

\* What the normalizer call of handler h returns when it runs alone on the
\* handler's own input.
ExtractedAlone(h) ==
    IF impl = "places"
    THEN cleanAndParseJSON(handlers[h].coordResponse)
    ELSE cleanAndParseJSONUnnamed(handlers[h].coordResponse)

StrippedAlone(h) ==
    IF impl = "places"
    THEN cleanHtmlResponse(handlers[h].rawPlacesHtml)
    ELSE cleanHtmlResponseUnnamed(handlers[h].rawPlacesHtml)

FenceCount(s) == Cardinality({i \in 1..Len(s) : HasPrefixAt(s, i, Fence)})

\* C11: extractJSON strips no fence delimiter before it bounds the candidate:
\* the fences of the input between its first "{" and its last "}" are all
\* still in the candidate handed to the parser.
C11_CandidateKeepsFences ==
    (op \in ParseOps /\ text.t = "string" /\ HasBraceSpan(text.s))
        => LET jsonMatch == MatchBraces(CleanedText(op, text.s))
           IN  /\ jsonMatch.found
               /\ FenceCount(jsonMatch.s) >= FenceCount(FirstToLastBrace(text.s))

(***************************************************************************)
(* The routes' responses                                                   *)
(***************************************************************************)
\* C12: every 200 response of find-places has startLat and startLon both
\* numbers taken from the extracted mapping, or both null.
C12_CoordinatesBothOrNeither ==
    \A h \in Handlers :
        LET w == handlers[h]
        IN  (w.route = "find-places" /\ w.pc = "done" /\ w.res.status = 200)
                => \/ w.res.startLat = Null /\ w.res.startLon = Null
                   \/ /\ w.parsedCoords \notin {Unset, Null}
                      /\ w.res.startLat.t = "number"
                      /\ w.res.startLon.t = "number"
                      /\ w.res.startLat = Field(w.parsedCoords, Lat)
                      /\ w.res.startLon = Field(w.parsedCoords, Lon)

\* The coordinate lookup of a finished find-places request failed: the call
\* threw, or nothing was extracted from its text.
CoordLookupFailed(w) ==
    /\ w.body.startLocation
    /\ w.coordResponse = Unset \/ w.parsedCoords \in {Unset, Null}

\* C17: a failed coordinate lookup never fails a find-places request: a valid
\* request is answered 500 only after the places lookup was made, and a 200
\* after a failed coordinate lookup has startLat = startLon = null.
C17_CoordFailureNotFatal ==
    \A h \in Handlers :
        LET w == handlers[h]
        IN  (w.route = "find-places" /\ w.pc = "done" /\ w.res.status # 400)
                => /\ w.res.status = 500
                        => Len(w.calls) > 0 /\ w.calls[Len(w.calls)] = "places"
                   /\ (w.res.status = 200 /\ CoordLookupFailed(w))
                        => w.res.startLat = Null /\ w.res.startLon = Null

\* The body of a request lacks a required field.
BodyInvalid(w) ==
    IF w.route = "find-places"
    THEN ~w.body.state \/ ~w.body.district \/ ~w.body.language
    ELSE ~w.body.interests \/ ~w.body.days \/ ~w.body.budget \/ ~w.body.language

\* C18: a find-places or plan-trip request with a missing required field is
\* answered 400, and a plan-trip request without a configured key 500, with
\* no call made to the generation API.
C18_ValidationBeforeUpstream ==
    \A h \in Handlers :
        LET w == handlers[h]
        IN  w.pc # "idle"
                => /\ BodyInvalid(w)
                        => /\ w.pc = "done"
                           /\ w.res.status = 400
                           /\ w.calls = <<>>
                           /\ Fetches(w) = 0
                   /\ (w.route = "plan-trip" /\ ~BodyInvalid(w) /\ ~apiKey)
                        => /\ w.pc = "done"
                           /\ w.res.status = 500
                           /\ w.calls = <<>>
                   /\ w.res.status = 400 => BodyInvalid(w)

\* A plan-trip request with a complete body was answered 500 for the missing
\* key.
C18_Witness ==
    \E h \in Handlers :
        /\ handlers[h].route = "plan-trip"
        /\ ~BodyInvalid(handlers[h])
        /\ ~apiKey
        /\ handlers[h].res = PlanRes500NoKey

\* The extraction of a finished /search or /weather request failed: the call
\* threw, or its text has no JSON object that parses.
ExtractionFailed(w) ==
    w.reply.k = "throw" \/ cleanAndParseJSONMap(w.reply.v).k = "throw"

\* C13: /search and /weather answer 500 when the call throws or no JSON object
\* parses; a mapping with an error key is answered with the empty array
\* (search) or 404 with that message (weather); any other mapping is sent
\* with status 200.
C13_FailedExtractionNeverSuccess ==
    \A h \in Handlers :
        LET w == handlers[h]
            extracted == cleanAndParseJSONMap(w.reply.v).v
        IN  (w.pc = "done" /\ w.route \in {"search", "weather"})
                => IF ExtractionFailed(w) THEN w.res.status = 500
                   ELSE IF ErrorKey \in DOMAIN extracted.m
                   THEN IF w.route = "search"
                        THEN w.res = MapRes200(Arr(<<>>))
                        ELSE w.res = MapRes404(extracted.m[ErrorKey])
                   ELSE /\ w.res.status = 200
                        /\ w.route = "weather" => w.res.body = extracted
                        /\ w.route = "search"
                             => /\ Len(w.res.body.a) = 1
                                /\ w.res.body.a[1].m[Name] = Field(extracted, Name)
                                /\ w.res.body.a[1].m[Lat] = Field(extracted, Lat)
                                /\ w.res.body.a[1].m[Lon] = Field(extracted, Lon)

(***************************************************************************)
(* The authentication routes                                               *)
(***************************************************************************)
\* C14: every request gets exactly one response: no handler sends twice, and
\* a handler that has run to its end, the callback of jwt.sign included, has
\* sent one.
C14_ExactlyOneResponse ==
    \A h \in Handlers :
        /\ handlers[h].sent <= 1
        /\ handlers[h].pc \in {"done", "crashed"} => handlers[h].sent = 1

\* C15: the store has at most one user per username and per email, and a
\* complete signup is answered 201 with its user stored, or else, its
\* username or email being taken, 400 'Username or email already exists'.
C15_SignupUniqueOr400 ==
    /\ \A u, v \in users :
          (u.username = v.username \/ u.email = v.email) => u = v
    /\ \A h \in Handlers :
          LET w == handlers[h]
          IN  (w.route = "signup" /\ w.pc = "done" /\ w.body.complete)
                  => \/ /\ w.res = SignupRes201
                        /\ \E u \in users : /\ u.username = w.body.username
                                            /\ u.email = w.body.email
                     \/ /\ w.res = SignupRes400Exists
                        /\ Taken(w.body.username, w.body.email)

\* A login that found no user with its username, and one whose password did
\* not match the hash of the user it found.
UnknownUsername(w) == w.route = "login" /\ w.pc = "done" /\ w.user = Null
WrongPassword(w) ==
    /\ w.route = "login" /\ w.pc = "done" /\ w.user \notin {Unset, Null}
    /\ ~bcryptCompare(w.body.password, w.user.password)

\* C16: a login answers with a token only for a stored user with its username
\* whose hash matches the password; a login with an unknown username and one
\* with a wrong password get the same response, 400 'Invalid credentials';
\* profile answers with user data only when the request's token verifies,
\* and 401 when it has none or it does not verify.
C16_TokenOnlyOnMatch ==
    /\ \A h \in Handlers :
          LET w == handlers[h]
          IN  /\ (w.route = "login" /\ w.res.status = 200)
                    => \E u \in users : /\ u.username = w.body.username
                                        /\ bcryptCompare(w.body.password, u.password)
                                        /\ w.res.token.user.id = u.id
              /\ (UnknownUsername(w) \/ WrongPassword(w))
                    => w.res = [status |-> 400, message |-> "Invalid credentials"]
              /\ (w.route = "profile" /\ w.pc = "done")
                    => /\ w.res.status = 200
                          => /\ w.token # NoToken
                             /\ Verifies(w.token)
                             /\ w.res.user.id = w.token.user.id
                             /\ "password" \notin DOMAIN w.res.user
                       /\ (w.token = NoToken \/ ~Verifies(w.token))
                          => w.res.status = 401
    /\ \A h, g \in Handlers :
          (UnknownUsername(handlers[h]) /\ WrongPassword(handlers[g]))
              => handlers[h].res = handlers[g].res

\* A login was answered with a token and a profile request carrying that
\* token with the user's data.
C16_Witness ==
    \E h, g \in Handlers :
        /\ handlers[h].route = "login"
        /\ handlers[h].res.status = 200
        /\ handlers[g].route = "profile"
        /\ handlers[g].token = handlers[h].res.token
        /\ handlers[g].res.status = 200

=============================================================================
